---- MODULE Spec2Model ----
(***************************************************************************)
(* Model of PiIntegraation.cpp: the benchmark driver main(), which for     *)
(* every step count and every thread count 1..maxThreads partitions the    *)
(* midpoint-rule integration of 4/(1+x^2) over [0,1] among numThreads      *)
(* std::thread workers (calculatePartialIntegral), joins them, sums the    *)
(* partial results and writes one CSV row.                                 *)
(*                                                                         *)
(* Representation of the doubles.  For a run with step count `steps`,      *)
(* stepSize = 1.0/steps.  A coordinate q*(stepSize/2) is represented by    *)
(* the integer q (half-step units), so i*stepsPerThread*stepSize is        *)
(* 2*i*stepsPerThread and start + i*stepSize + stepSize/2 is               *)
(* start + 2*i + 1.  A sum of rectangle areas f(x)*stepSize is represented *)
(* by the sequence of the midpoints x it was accumulated from, in          *)
(* accumulation order; 0.0 is the empty sequence and `a += b` appends b's  *)
(* terms to a.  This is the exact (real-number) reading of the arithmetic; *)
(* floating-point rounding is not modelled.                                *)
(***************************************************************************)
EXTENDS Integers, Sequences, FiniteSets, TLC

\* Scaled-down value of `int maxThreads = 50` (PiIntegraation.cpp:89).
maxThreads == 3

\* Advance of the clock between the two readings of now() of a run, when it
\* advances at all.
MaxTick == 1

\* Scaled-down image of `stepCounts = {100000000, 1000000000, 3000000000}`
\* (PiIntegraation.cpp:88): every entry is at least maxThreads, the first is
\* not a multiple of every thread count (as 10^8 is not a multiple of 3).
stepCounts == << maxThreads + 1, 2 * maxThreads >>

\* Thread indices i of the spawn loop, line 128.
Workers == 0 .. (maxThreads - 1)

\* Scaled-down image of the largest `int` (2^31 - 1): it holds maxThreads
\* (as it holds 50) and the first step count (as it holds 100000000) but not
\* the last one (as it does not hold 3000000000).
IntMax == 2 * maxThreads - 1

\* Scaled-down image of the largest `long long` (2^63 - 1), in the same
\* relation to IntMax: 2 * (2^31)^2 - 1.
LongLongMax == 2 * (IntMax + 1) * (IntMax + 1) - 1

VARIABLES
    pc,             \* position of main()
    exitCode,       \* -1 while running, else the process's exit status
    isOpen,         \* outputFile.is_open()
    csv,            \* what was written to outputFile, in order
    cerrOut,        \* lines written to cerr
    coutOut,        \* lines written to cout
    si,             \* position of the range-for over stepCounts (1-based)
    steps,          \* loop variable `steps`, line 100
    numThreads,     \* loop variable `numThreads`, line 110
    startTime,      \* line 119
    endTime,        \* line 166
    stepsPerThread, \* line 127
    i,              \* spawn loop index, line 128
    threads,        \* vector<thread>: the workers spawned, in order
    joined,         \* number of threads already joined by the loop of line 149
    partialResults, \* vector<double> partialResults(numThreads, 0.0)
    sumIdx,         \* number of slots already added by the loop of line 161
    pi,             \* double pi, line 160
    worker,         \* per thread: position, arguments and locals
    writes          \* per slot: the threads that assigned it (history)

vars == << pc, exitCode, isOpen, csv, cerrOut, coutOut, si, steps, numThreads,
           startTime, endTime, stepsPerThread, i, threads, joined,
           partialResults, sumIdx, pi, worker, writes >>

mainVars == << si, steps, numThreads >>
runVars == << startTime, endTime, stepsPerThread, i, threads, joined,
              partialResults, sumIdx, pi, worker, writes >>
ioVars == << isOpen, csv, cerrOut, coutOut >>

\* A division that rounds up, so that no step is left over.
TruncDiv_Ceil(a, b) == (a + b - 1) \div b

\* C++ integer division truncates toward zero.
TruncDiv(a, b) ==
    IF (a >= 0) = (b > 0) THEN (IF a >= 0 THEN a ELSE -a) \div (IF b > 0 THEN b ELSE -b)
    ELSE -((IF a >= 0 THEN a ELSE -a) \div (IF b > 0 THEN b ELSE -b))

\* A thread that does not exist (yet).
NoWorker == [pc |-> "none", start |-> 0, end |-> 0, steps |-> 0, slot |-> 0,
             i |-> 0, sum |-> << >>]

\* State of the locals of one iteration of the numThreads loop before it runs.
NoRun ==
    /\ startTime = 0 /\ endTime = 0 /\ stepsPerThread = 0 /\ i = 0
    /\ threads = << >> /\ joined = 0 /\ partialResults = << >>
    /\ sumIdx = 0 /\ pi = << >>
    /\ worker = [w \in Workers |-> NoWorker]
    /\ writes = << >>

Init ==
    /\ pc = "open" /\ exitCode = -1 /\ isOpen = FALSE
    /\ csv = << >> /\ cerrOut = << >> /\ coutOut = << >>
    /\ si = 1 /\ steps = 0 /\ numThreads = 0
    /\ NoRun

(***************************************************************************)
(* calculatePartialIntegral, lines 58-65, run by each std::thread          *)
(***************************************************************************)

\* The left edge of the rectangle instead of its middle.
Midpoint_LeftEdge(start, k) == start + 2 * k

\* Line 61: x = start + i*stepSize + stepSize/2.0, in half-step units.
Midpoint(start, k) == start + 2 * k + 1

\* A loop that runs once more than asked.
LoopCond_Inclusive(k, n) == k <= n

\* Line 60: the condition of the loop, i < steps.
LoopCond(k, n) == k < n

\* Lines 60-63: one iteration of the loop, sum += f(x) * stepSize.
WorkerIter(w) ==
    /\ pc # "aborted"
    /\ worker[w].pc = "loop"
    /\ LoopCond(worker[w].i, worker[w].steps)
    /\ worker' = [worker EXCEPT
                    ![w].sum = Append(@, Midpoint(worker[w].start, worker[w].i)),
                    ![w].i = @ + 1]
    /\ UNCHANGED << pc, exitCode, ioVars, mainVars, startTime, endTime,
                    stepsPerThread, i, threads, joined, partialResults,
                    sumIdx, pi, writes >>

\* Lines 60 and 64: the loop ends, result = sum, the thread function returns.
WorkerFinish(w) ==
    /\ pc # "aborted"
    /\ worker[w].pc = "loop"
    /\ ~LoopCond(worker[w].i, worker[w].steps)
    /\ partialResults' = [partialResults EXCEPT ![worker[w].slot + 1] = worker[w].sum]
    /\ writes' = [writes EXCEPT ![worker[w].slot + 1] = Append(@, w)]
    /\ worker' = [worker EXCEPT ![w].pc = "done"]
    /\ UNCHANGED << pc, exitCode, ioVars, mainVars, startTime, endTime,
                    stepsPerThread, i, threads, joined, sumIdx, pi >>

(***************************************************************************)
(* main, lines 86-204                                                      *)
(***************************************************************************)

\* Line 92: ofstream outputFile("results.csv"); the open succeeds or fails.
OpenFile ==
    /\ pc = "open"
    /\ \E ok \in BOOLEAN : isOpen' = ok
    /\ pc' = "check"
    /\ UNCHANGED << exitCode, csv, cerrOut, coutOut, mainVars, runVars >>

\* An open check that never reports a failure.
OpenFailed_Never(open) == FALSE

\* Line 93: the condition of the early return.
OpenFailed(open) == ~open

\* Lines 93-96: the file is not open: diagnostic on cerr, return 1.
OpenError ==
    /\ pc = "check"
    /\ OpenFailed(isOpen)
    /\ cerrOut' = Append(cerrOut, "cannot open results.csv")
    /\ exitCode' = 1
    /\ pc' = "exit"
    /\ UNCHANGED << isOpen, csv, coutOut, mainVars, runVars >>

\* Lines 93 and 97: the file is open: the CSV header is written.
WriteHeader ==
    /\ pc = "check"
    /\ ~OpenFailed(isOpen)
    /\ csv' = Append(csv, [kind |-> "header"])
    /\ pc' = "outer"
    /\ UNCHANGED << exitCode, isOpen, cerrOut, coutOut, mainVars, runVars >>

\* Lines 100 and 107-110: next element of stepCounts, stepSize = 1.0/steps
\* (the unit of the coordinates of this step count), numThreads = 1.
NextSteps ==
    /\ pc = "outer"
    /\ si <= Len(stepCounts)
    /\ steps' = stepCounts[si]
    /\ numThreads' = 1
    /\ pc' = "inner"
    /\ UNCHANGED << exitCode, ioVars, si, runVars >>

\* Lines 100 and 200-203: stepCounts is exhausted: close, message, return 0.
CloseAndExit ==
    /\ pc = "outer"
    /\ si > Len(stepCounts)
    /\ isOpen' = FALSE
    /\ coutOut' = Append(coutOut, [kind |-> "saved"])
    /\ exitCode' = 0
    /\ pc' = "exit"
    /\ UNCHANGED << csv, cerrOut, mainVars, runVars >>

\* A loop that stops one thread count early.
InnerCond_Less(n) == n < maxThreads

\* Line 110: the condition of the loop over the thread counts.
InnerCond(n) == n <= maxThreads

\* Lines 110-112: a run begins: empty `threads`, partialResults(numThreads, 0.0).
BeginRun ==
    /\ pc = "inner"
    /\ InnerCond(numThreads)
    /\ threads' = << >>
    /\ partialResults' = [s \in 1 .. numThreads |-> << >>]
    /\ writes' = [s \in 1 .. numThreads |-> << >>]
    /\ pc' = "time0"
    /\ UNCHANGED << exitCode, ioVars, mainVars, startTime, endTime,
                    stepsPerThread, i, joined, sumIdx, pi, worker >>

\* Line 110 (condition false) and line 100: the thread counts are exhausted.
EndSteps ==
    /\ pc = "inner"
    /\ ~InnerCond(numThreads)
    /\ si' = si + 1
    /\ pc' = "outer"
    /\ UNCHANGED << exitCode, ioVars, steps, numThreads, runVars >>

\* Line 119: startTime = high_resolution_clock::now().  Only differences of
\* readings are used, so the first reading is taken as the origin.
StartTimer ==
    /\ pc = "time0"
    /\ startTime' = 0
    /\ pc' = "divide"
    /\ UNCHANGED << exitCode, ioVars, mainVars, endTime, stepsPerThread, i,
                    threads, joined, partialResults, sumIdx, pi, worker, writes >>

\* Line 127: stepsPerThread = steps / numThreads (numThreads is not 0).
Divide ==
    /\ pc = "divide"
    /\ numThreads # 0
    /\ stepsPerThread' = TruncDiv(steps, numThreads)
    /\ i' = 0
    /\ pc' = "spawn"
    /\ UNCHANGED << exitCode, ioVars, mainVars, startTime, endTime, threads,
                    joined, partialResults, sumIdx, pi, worker, writes >>

\* Line 127 with numThreads = 0: the integer division by zero is undefined
\* behaviour; the process is killed (SIGFPE, status 136) or goes on with an
\* arbitrary quotient.
DivideByZero ==
    /\ pc = "divide"
    /\ numThreads = 0
    /\ \/ /\ pc' = "aborted"
          /\ exitCode' = 136
          /\ UNCHANGED << stepsPerThread, i >>
       \/ /\ \E q \in {-1, 0, 1} : stepsPerThread' = q
          /\ i' = 0
          /\ pc' = "spawn"
          /\ UNCHANGED exitCode
    /\ UNCHANGED << ioVars, mainVars, startTime, endTime, threads, joined,
                    partialResults, sumIdx, pi, worker, writes >>

\* The products evaluated in `int`.
ProductMax_Int == IntMax

\* Lines 135-136: i * stepsPerThread and (i + 1) * stepsPerThread are
\* evaluated in `long long` (int i is converted to the type of
\* stepsPerThread); the largest value of that type.
ProductMax == LongLongMax

\* Lines 135-136: neither product overflows its type (a signed overflow is
\* undefined behaviour), nor does i + 1 overflow int.
NoOverflow(k, spt) ==
    /\ k + 1 <= IntMax
    /\ -ProductMax - 1 <= k * spt /\ k * spt <= ProductMax
    /\ -ProductMax - 1 <= (k + 1) * spt /\ (k + 1) * spt <= ProductMax

\* A partition whose ranges start one step late.
StartOf_Shifted(k, spt) == 2 * k * spt + 2

\* Line 135: start = i * stepsPerThread * stepSize, in half-step units.
StartOf(k, spt) == 2 * k * spt

\* Line 136: end = (i + 1) * stepsPerThread * stepSize, in half-step units.
EndOf(k, spt) == 2 * (k + 1) * spt

\* Every thread bound to the first slot.
SlotOf_Shared(k) == 0

\* Line 139: ref(partialResults[i]), the slot thread i is bound to.
SlotOf(k) == k

\* Lines 128-140: one iteration of the spawn loop; the thread starts.
Spawn ==
    /\ pc = "spawn"
    /\ i < numThreads
    /\ NoOverflow(i, stepsPerThread)
    /\ worker' = [worker EXCEPT ![i] =
                    [pc |-> "loop",
                     start |-> StartOf(i, stepsPerThread),
                     end |-> EndOf(i, stepsPerThread),
                     steps |-> stepsPerThread,
                     slot |-> SlotOf(i),
                     i |-> 0, sum |-> << >>]]
    /\ threads' = Append(threads, i)
    /\ i' = i + 1
    /\ UNCHANGED << pc, exitCode, ioVars, mainVars, startTime, endTime,
                    stepsPerThread, joined, partialResults, sumIdx, pi, writes >>

\* The exception is swallowed and the run goes on with the threads it has.
OnSpawnFailure_Continue == "join"

\* Where control goes when the std::thread constructor throws
\* std::system_error at line 139: main has no handler, std::terminate.
OnSpawnFailure == "aborted"

\* Line 139: the thread cannot be started; the exception leaves main and the
\* process is terminated (SIGABRT, status 134) with its threads.
SpawnFail ==
    /\ pc = "spawn"
    /\ i < numThreads
    /\ pc' = OnSpawnFailure
    /\ exitCode' = IF OnSpawnFailure = "aborted" THEN 134 ELSE exitCode
    /\ cerrOut' = Append(cerrOut, "terminate called")
    /\ UNCHANGED << isOpen, csv, coutOut, mainVars, runVars >>

\* Line 128: the spawn loop ends.
SpawnDone ==
    /\ pc = "spawn"
    /\ ~(i < numThreads)
    /\ joined' = 0
    /\ pc' = "join"
    /\ UNCHANGED << exitCode, ioVars, mainVars, startTime, endTime,
                    stepsPerThread, i, threads, partialResults, sumIdx, pi,
                    worker, writes >>

\* A join that returns without waiting for the thread.
JoinReady_NoWait(w) == TRUE

\* A join that never returns.
JoinReady_Never(w) == FALSE

\* Line 150: t.join() returns once the thread function has returned.
JoinReady(w) == worker[w].pc = "done"

\* Lines 149-151: one iteration of the join loop.
Join ==
    /\ pc = "join"
    /\ joined < Len(threads)
    /\ JoinReady(threads[joined + 1])
    /\ worker' = [worker EXCEPT ![threads[joined + 1]].pc =
                    IF @ = "done" THEN "joined" ELSE @]
    /\ joined' = joined + 1
    /\ UNCHANGED << pc, exitCode, ioVars, mainVars, startTime, endTime,
                    stepsPerThread, i, threads, partialResults, sumIdx, pi,
                    writes >>

\* Lines 149 and 160: the join loop ends, pi = 0.0.
JoinDone ==
    /\ pc = "join"
    /\ ~(joined < Len(threads))
    /\ pi' = << >>
    /\ sumIdx' = 0
    /\ pc' = "sum"
    /\ UNCHANGED << exitCode, ioVars, mainVars, startTime, endTime,
                    stepsPerThread, i, threads, joined, partialResults,
                    worker, writes >>

\* An aggregation that reads the first slot in every iteration.
ReadSlot_First(k) == 1

\* Line 161: the element of partialResults the k-th iteration (from 0) of
\* the range-for reads.
ReadSlot(k) == k + 1

\* Lines 161-163: one iteration of the aggregation loop, pi += result.
Aggregate ==
    /\ pc = "sum"
    /\ sumIdx < Len(partialResults)
    /\ pi' = pi \o partialResults[ReadSlot(sumIdx)]
    /\ sumIdx' = sumIdx + 1
    /\ UNCHANGED << pc, exitCode, ioVars, mainVars, startTime, endTime,
                    stepsPerThread, i, threads, joined, partialResults,
                    worker, writes >>

\* Lines 161 and 166: the aggregation loop ends, endTime = now().  The clock
\* is taken to be monotonic between the two readings of a run: since the
\* reading of line 119 it has not advanced or has advanced by MaxTick.
StopTimer ==
    /\ pc = "sum"
    /\ ~(sumIdx < Len(partialResults))
    /\ \E d \in {0, MaxTick} : endTime' = startTime + d
    /\ pc' = "row"
    /\ UNCHANGED << exitCode, ioVars, mainVars, startTime, stepsPerThread, i,
                    threads, joined, partialResults, sumIdx, pi, worker, writes >>

\* Lines 167-190: the row goes to the file and to cout; the locals of the
\* iteration (threads, partialResults, ...) are destroyed; ++numThreads.
WriteRow ==
    /\ pc = "row"
    /\ csv' = Append(csv, [kind |-> "row", steps |-> steps,
                           numThreads |-> numThreads,
                           duration |-> endTime - startTime, pi |-> pi])
    /\ coutOut' = Append(coutOut, [kind |-> "run", steps |-> steps,
                                   numThreads |-> numThreads])
    /\ numThreads' = numThreads + 1
    /\ startTime' = 0 /\ endTime' = 0 /\ stepsPerThread' = 0 /\ i' = 0
    /\ threads' = << >> /\ joined' = 0 /\ partialResults' = << >>
    /\ sumIdx' = 0 /\ pi' = << >>
    /\ worker' = [w \in Workers |-> NoWorker]
    /\ writes' = << >>
    /\ pc' = "inner"
    /\ UNCHANGED << exitCode, isOpen, cerrOut, si, steps >>

Next ==
    \/ OpenFile
    \/ OpenError
    \/ WriteHeader
    \/ NextSteps
    \/ CloseAndExit
    \/ BeginRun
    \/ EndSteps
    \/ StartTimer
    \/ Divide
    \/ Spawn
    \/ SpawnFail
    \/ SpawnDone
    \/ Join
    \/ JoinDone
    \/ Aggregate
    \/ StopTimer
    \/ WriteRow
    \/ \E w \in Workers : WorkerIter(w)
    \/ \E w \in Workers : WorkerFinish(w)

Spec == Init /\ [][Next]_vars

\* The steps of the main thread.
Main ==
    \/ OpenFile \/ OpenError \/ WriteHeader \/ NextSteps \/ CloseAndExit
    \/ BeginRun \/ EndSteps \/ StartTimer \/ Divide \/ Spawn \/ SpawnFail
    \/ SpawnDone \/ Join \/ JoinDone \/ Aggregate \/ StopTimer \/ WriteRow

\* The steps of the thread of index w.
Thread(w) == WorkerIter(w) \/ WorkerFinish(w)

\* Fair scheduling: the main thread and every started std::thread keep
\* running while they can (none of them ever blocks except main in join).
FairSpec == Spec /\ WF_vars(Main) /\ \A w \in Workers : WF_vars(Thread(w))

(***************************************************************************)
(* The body of the loops (lines 110-191) entered with an arbitrary         *)
(* configuration (steps, numThreads): the program of the repository that   *)
(* reads the two integers from standard input, without validation, and     *)
(* runs the same partition / spawn / join / sum code on them.              *)
(***************************************************************************)

\* Inputs: total step counts and thread counts, valid and invalid.
StepInputs == -1 .. (2 * maxThreads)
ThreadInputs == 0 .. maxThreads

InitRun ==
    /\ pc = "inner" /\ exitCode = -1 /\ isOpen = TRUE
    /\ csv = << [kind |-> "header"] >> /\ cerrOut = << >> /\ coutOut = << >>
    /\ si = Len(stepCounts)
    /\ steps \in StepInputs
    /\ numThreads \in ThreadInputs
    /\ NoRun

NextRun ==
    \/ BeginRun
    \/ EndSteps
    \/ CloseAndExit
    \/ StartTimer
    \/ Divide
    \/ DivideByZero
    \/ Spawn
    \/ SpawnFail
    \/ SpawnDone
    \/ Join
    \/ JoinDone
    \/ Aggregate
    \/ StopTimer
    \/ WriteRow
    \/ \E w \in Workers : WorkerIter(w)
    \/ \E w \in Workers : WorkerFinish(w)

RunSpec == InitRun /\ [][NextRun]_vars

(***************************************************************************)
(* One call of calculatePartialIntegral(start, end, steps, stepSize,       *)
(* result) on arbitrary arguments, run by thread 0 while main waits in     *)
(* join: start and end are any coordinates (end need not be                *)
(* start + steps*stepSize), steps >= 0, and the slot `result` refers to    *)
(* holds any earlier value.                                                *)
(***************************************************************************)

\* Largest number of steps of one call.
MaxKernelSteps == 4

\* Arguments of the call, in half-step units.
KernelStarts == 0 .. 3
KernelEnds == {-1, 0, 2 * MaxKernelSteps + 3}

\* Values the result slot may hold before the call: 0.0 or some other sum.
KernelOldResults == { << >>, << -1 >> }

InitKernel ==
    /\ pc = "join" /\ exitCode = -1 /\ isOpen = TRUE
    /\ csv = << [kind |-> "header"] >> /\ cerrOut = << >> /\ coutOut = << >>
    /\ si = 1 /\ steps = 0 /\ numThreads = 1
    /\ startTime = 0 /\ endTime = 0 /\ stepsPerThread = 0 /\ i = 1
    /\ threads = << 0 >> /\ joined = 0 /\ sumIdx = 0 /\ pi = << >>
    /\ \E old \in KernelOldResults : partialResults = << old >>
    /\ writes = << << >> >>
    /\ \E a \in KernelStarts : \E b \in KernelEnds : \E n \in 0 .. MaxKernelSteps :
          worker = [w \in Workers |->
                      IF w = 0
                      THEN [pc |-> "loop", start |-> a, end |-> b, steps |-> n,
                            slot |-> 0, i |-> 0, sum |-> << >>]
                      ELSE NoWorker]

NextKernel == WorkerIter(0) \/ WorkerFinish(0)

KernelSpec == InitKernel /\ [][NextKernel]_vars

\* The thread that runs the call is scheduled while it can run.
FairKernelSpec == KernelSpec /\ WF_vars(Thread(0))

(***************************************************************************)
(* Properties                                                              *)
(***************************************************************************)

\* The threads of the current run, by index.
RunWorkers == 0 .. (numThreads - 1)

\* The elements of a sequence.
Range(q) == { q[k] : k \in 1 .. Len(q) }

\* main is past the join loop of the current run.
PastBarrier == pc \in {"sum", "row"}

\* C1: join barrier.  Whenever main is summing the partial results (or has
\* summed them), every one of the numThreads threads of the run has been
\* spawned, has returned and has been joined, and the slot of each thread
\* was assigned by it before: no slot is read before its producer finished.
C1_JoinBarrier ==
    PastBarrier =>
        /\ Len(threads) = numThreads
        /\ \A w \in RunWorkers :
              /\ worker[w].pc = "joined"
              /\ worker[w].i = worker[w].steps
              /\ w \in Range(writes[worker[w].slot + 1])

\* C1 witness: the aggregator has read the slot of a run of several threads.
C1_Witness ==
    /\ pc = "sum" /\ numThreads >= 2 /\ sumIdx >= 1
    /\ \A w \in RunWorkers : worker[w].pc = "joined"

\* State part of C2.
C2_Slots ==
    /\ Len(threads) <= numThreads
    /\ \A k \in 1 .. Len(threads) : threads[k] = k - 1
    /\ pc \in {"join", "sum", "row"} => Len(threads) = numThreads
    /\ \A w \in Workers :
          worker[w].pc # "none" <=> w \in Range(threads)
    /\ \A w \in Range(threads) :
          /\ worker[w].slot = w
          /\ \A v \in Range(threads) : worker[v].slot = worker[w].slot => v = w
    /\ \A s \in 1 .. Len(writes) :
          /\ Len(writes[s]) <= 1
          /\ writes[s] # << >> =>
                /\ writes[s] = << s - 1 >>
                /\ worker[s - 1].pc \in {"done", "joined"}
          /\ (s - 1 \in Range(threads) /\ worker[s - 1].pc \in {"done", "joined"})
                => writes[s] = << s - 1 >>
          /\ PastBarrier => writes[s] = << s - 1 >>

\* Step part of C2: between the construction of partialResults and the end
\* of the join loop, a slot changes only in the step in which its own thread
\* returns, and that step changes no other slot.
C2_Step ==
    (pc \in {"time0", "divide", "spawn", "join"} /\ pc' # "inner"
        /\ partialResults' # partialResults)
    => \E w \in Range(threads) :
          /\ worker[w].pc = "loop" /\ worker'[w].pc = "done"
          /\ partialResults' = [partialResults EXCEPT ![w + 1] = worker[w].sum]
          /\ writes[w + 1] = << >>

\* C2: exactly numThreads threads are spawned by the time the spawn loop has
\* ended (never more), thread i is bound to slot i alone, no two threads
\* share a slot, and each slot is assigned exactly once, by its own thread,
\* between that thread's spawn and the barrier; main and the other threads
\* do not assign it during the parallel phase.
C2_DistinctSlotsWrittenOnce == [] C2_Slots /\ [][C2_Step]_vars

\* C2 witness: a run of maxThreads threads is past the barrier, each slot
\* assigned once by its own thread.
C2_Witness ==
    /\ pc = "sum" /\ numThreads = maxThreads
    /\ \A s \in 1 .. numThreads : writes[s] = << s - 1 >>

\* The global step indices of the range of thread w: [w*spt, (w+1)*spt).
StepRange(w) == { g \in 0 .. (steps - 1) :
                    w * stepsPerThread <= g /\ g < (w + 1) * stepsPerThread }

\* The run's thread count divides its step count evenly.
Divisible == steps >= 1 /\ numThreads >= 1 /\ steps % numThreads = 0

\* C3: when numThreads divides steps, the partition built by the spawn loop
\* has numThreads intervals whose step counts sum to steps, consecutive
\* intervals meet (end of one is the start of the next, from 0 to 1), every
\* global step index lies in the range of exactly one thread, and after the
\* aggregation every midpoint of [0,1] has been evaluated exactly once.
C3_PartitionTiles ==
    (Divisible /\ pc \in {"join", "sum", "row"}) =>
        /\ Len(threads) = numThreads
        /\ \A w \in RunWorkers : worker[w].steps = stepsPerThread
        /\ numThreads * stepsPerThread = steps
        /\ worker[0].start = 0
        /\ worker[numThreads - 1].end = 2 * steps
        /\ \A w \in RunWorkers :
              /\ worker[w].end - worker[w].start = 2 * worker[w].steps
              /\ w > 0 => worker[w].start = worker[w - 1].end
              /\ StepRange(w) = { g \in 0 .. (steps - 1) :
                                    /\ worker[w].start <= 2 * g
                                    /\ 2 * g + 2 <= worker[w].end }
        /\ \A g \in 0 .. (steps - 1) :
              Cardinality({ w \in RunWorkers : g \in StepRange(w) }) = 1
        /\ pc = "row" =>
              /\ Len(pi) = steps
              /\ Range(pi) = { 2 * g + 1 : g \in 0 .. (steps - 1) }

\* C3 witness: an aggregated run of several threads on a divisible count.
C3_Witness ==
    /\ Divisible /\ pc = "row" /\ numThreads = maxThreads
    /\ Len(pi) = steps

\* The data rows written so far, as positions of csv.
Rows == { k \in 1 .. Len(csv) : csv[k].kind = "row" }

\* The multiset of the midpoints a sum was accumulated from.
Terms(q) == [x \in Range(q) |-> Cardinality({ k \in 1 .. Len(q) : q[k] = x })]

\* C4: for a fixed step count the estimate does not depend on the thread
\* count: any two rows of the same step count sum the same multiset of
\* midpoints.
C4_PartitionIndependent ==
    \A a \in Rows : \A b \in Rows :
        csv[a].steps = csv[b].steps => Terms(csv[a].pi) = Terms(csv[b].pi)

\* The rows of csv for the pair (step count number p, thread count n).
RowsOf(p, n) == { k \in Rows : csv[k].steps = stepCounts[p]
                                /\ csv[k].numThreads = n }

\* The header is written once, before every data row.
HeaderFirst ==
    csv # << >> =>
        /\ csv[1].kind = "header"
        /\ \A k \in 2 .. Len(csv) : csv[k].kind = "row"

OpenHasFailed == pc \in {"check", "exit"} /\ ~isOpen /\ exitCode # 0

\* State part of C6.
C6_State ==
    /\ OpenHasFailed =>
          /\ csv = << >> /\ coutOut = << >>
          /\ threads = << >> /\ partialResults = << >> /\ pi = << >>
          /\ \A w \in Workers : worker[w].pc = "none"
          /\ pc = "exit" => (exitCode = 1 /\ Len(cerrOut) = 1)
    /\ exitCode = 1 => (csv = << >> /\ \A w \in Workers : worker[w].pc = "none")
    /\ pc = "exit" => exitCode # -1
    /\ exitCode = 0 =>
          /\ pc = "exit"
          /\ csv # << >> /\ csv[1].kind = "header"
          /\ si > Len(stepCounts)
          /\ Cardinality(Rows) = Len(stepCounts) * maxThreads

\* Step part of C6: the step after a failed open is the return with status 1
\* and the diagnostic.
C6_Step ==
    (pc = "check" /\ ~isOpen) =>
        /\ pc' = "exit" /\ exitCode' = 1
        /\ cerrOut' # cerrOut
        /\ csv' = csv /\ worker' = worker /\ threads' = threads

\* C6: if the output file cannot be opened, nothing is computed: no thread is
\* spawned, no header and no row is written, a diagnostic goes to cerr and
\* the program returns a non-zero status; status 0 is returned only when the
\* file was opened and every combination was processed.
C6_OpenFailureAborts == [] C6_State /\ [][C6_Step]_vars

\* C6 witness: the program has returned 1 after a failed open.
C6_Witness ==
    /\ pc = "exit" /\ exitCode = 1 /\ ~isOpen
    /\ Len(cerrOut) = 1 /\ csv = << >>

\* The terminal state of the benchmark: every combination processed, the
\* stream closed, status 0.
Terminal ==
    /\ pc = "exit" /\ exitCode = 0 /\ ~isOpen
    /\ si > Len(stepCounts)
    /\ Cardinality(Rows) = Len(stepCounts) * maxThreads

\* C7 as claimed: once the file is open, every started run reaches its row
\* and the benchmark reaches its terminal state; the program stops nowhere
\* else.
C7_AlwaysCompletes ==
    /\ (pc = "check" /\ isOpen) ~> Terminal
    /\ (pc = "time0") ~> (pc = "row")
    /\ [] ((csv # << >> /\ ~ENABLED Next) => Terminal)

\* C7, amended: once the file is open, under fair scheduling every started
\* run reaches its row (all its threads returned and joined) unless the start
\* of one of its threads fails, which terminates the process; the benchmark
\* eventually reaches its terminal state or that abnormal termination; the
\* process is terminated abnormally only by a failed thread start, and it
\* stops nowhere but in the terminal state, after that termination or after
\* a failed open.
C7_CompletesUnlessSpawnFails ==
    /\ (pc = "check" /\ isOpen) ~> (Terminal \/ pc = "aborted")
    /\ (pc = "time0") ~> (pc = "row" \/ pc = "aborted")
    /\ [] (pc = "row" => \A w \in RunWorkers : worker[w].pc = "joined")
    /\ [][pc' = "aborted" => (pc = "spawn" /\ i < numThreads /\ threads' = threads)]_vars
    /\ [] (~ENABLED Next => (pc = "aborted" \/ Terminal
                              \/ (pc = "exit" /\ exitCode = 1 /\ csv = << >>)))

\* C7 witness: the terminal state, reached through runs of several threads.
C7_Witness ==
    /\ Terminal
    /\ \E k \in Rows : csv[k].numThreads = maxThreads

\* State part of C9: after a failed thread start the process has ended with
\* a non-zero status, no estimate was computed and no row was written for the
\* run.
C9_State ==
    pc = "aborted" =>
        /\ exitCode \notin {-1, 0}
        /\ Len(threads) < numThreads
        /\ pi = << >> /\ sumIdx = 0
        /\ \A k \in Rows : ~(csv[k].steps = steps /\ csv[k].numThreads = numThreads)
        /\ Cardinality(Rows) = (si - 1) * maxThreads + (numThreads - 1)

\* Step part of C9: the spawn loop is left with fewer than numThreads threads
\* only by the termination of the process, and nothing happens after it.
C9_Step ==
    /\ (pc = "spawn" /\ pc' # "spawn" /\ Len(threads') < numThreads)
          => (pc' = "aborted" /\ csv' = csv /\ pi' = pi)
    /\ pc # "aborted"

\* C9: if the start of the k-th thread of a run fails, the run fails
\* fatally: no estimate is computed and no row is written for it, whatever
\* the threads already started have produced, and no later run is executed.
C9_SpawnFailureIsFatal == [] C9_State /\ [][C9_Step]_vars

\* C9 witness: a thread start failed after another thread of the run had
\* already delivered its partial result, in a run that is not the first.
C9_Witness ==
    /\ pc = "aborted" /\ Len(threads) >= 1
    /\ \E w \in Range(threads) : worker[w].pc = "done" /\ partialResults[w + 1] # << >>
    /\ Rows # {}

\* The midpoints of thread w in a run of n threads on s steps, in order.
ExpectedSum(w, s, n) ==
    [k \in 1 .. (s \div n) |-> 2 * (w * (s \div n) + (k - 1)) + 1]

\* The concatenation of the expected sums of threads 0 .. n-1.
ExpectedPi(s, n) ==
    [k \in 1 .. (n * (s \div n)) |-> 2 * (k - 1) + 1]

\* C10: the state after the barrier is a function of (steps, numThreads)
\* alone: in every interleaving and every order of completion, thread w got
\* the same interval, evaluated the same step indices, every slot holds the
\* same content and the aggregated result is the same.
C10_ScheduleIndependent ==
    PastBarrier =>
        /\ \A w \in RunWorkers :
              /\ worker[w].start = 2 * w * (steps \div numThreads)
              /\ worker[w].end = 2 * (w + 1) * (steps \div numThreads)
              /\ worker[w].steps = steps \div numThreads
              /\ worker[w].sum = ExpectedSum(w, steps, numThreads)
              /\ partialResults[w + 1] = ExpectedSum(w, steps, numThreads)
        /\ Len(partialResults) = numThreads
        /\ pc = "row" => pi = ExpectedPi(steps, numThreads)

\* C10 witness: a run of maxThreads concurrent threads has been aggregated.
C10_Witness ==
    /\ pc = "row" /\ numThreads = maxThreads
    /\ pi = ExpectedPi(steps, numThreads) /\ pi # << >>

\* The configuration of the current run is invalid.
InvalidConfig == numThreads <= 0 \/ steps <= 0

\* C8: an invalid configuration (numThreads <= 0 or steps <= 0) is rejected
\* with a reported configuration error before any work begins: the division
\* of line 127 is not performed, no thread is spawned, nothing is summed, the
\* process is not killed and no row is ever written for such a
\* configuration.
C8_InvalidConfigRejected ==
    /\ InvalidConfig =>
          /\ pc \notin {"spawn", "join", "sum", "row", "aborted"}
          /\ threads = << >>
          /\ \A w \in Workers : worker[w].pc = "none"
    /\ \A k \in Rows : csv[k].steps >= 1 /\ csv[k].numThreads >= 1

\* The call of thread 0 has returned.
Returned == worker[0].pc = "done"

\* State part of C11.
C11_Result ==
    Returned =>
        /\ Len(worker[0].sum) = worker[0].steps
        /\ worker[0].i = worker[0].steps
        /\ partialResults[1] = worker[0].sum
        /\ writes[1] = << 0 >>
        /\ worker[0].steps = 0 =>
              (worker[0].sum = << >> /\ partialResults[1] = << >>)

\* C11: a call with steps = 0 evaluates the integrand no time and assigns
\* exactly 0.0 to its result slot, whatever the slot held; for every
\* steps >= 0 the call returns, and it has then assigned the sum of steps
\* rectangle areas to the slot.
C11_ZeroStepsGivesZero == [] C11_Result /\ <> Returned

\* C11 witness: a call with steps = 0 (and end different from start) has
\* returned after assigning 0.0 to its slot.
C11_Witness ==
    /\ Returned /\ worker[0].steps = 0 /\ worker[0].end # worker[0].start
    /\ partialResults[1] = << >> /\ writes[1] = << 0 >>

\* The global step indices whose midpoints a sum was accumulated from.
StepsOf(q) == { (q[k] - 1) \div 2 : k \in 1 .. Len(q) }

\* steps / numThreads and steps % numThreads of the current run.
Quotient == steps \div numThreads
Remainder == steps % numThreads

\* C13: in every run (steps >= 1, numThreads >= 1, divisible or not), with
\* stepsPerThread = floor(steps / numThreads): thread w evaluates exactly the
\* step indices [w*stepsPerThread, (w+1)*stepsPerThread), each once; the
\* ranges are pairwise disjoint, contiguous from 0, none passes steps, and
\* together they are [0, numThreads*stepsPerThread); the last
\* steps % numThreads step indices of [0, steps) are evaluated by no thread;
\* every thread, the last included, evaluates stepsPerThread steps.
C13_RemainderDropped ==
    (PastBarrier /\ steps >= 1 /\ numThreads >= 1) =>
        /\ stepsPerThread = Quotient
        /\ \A w \in RunWorkers :
              /\ worker[w].steps = Quotient
              /\ Len(worker[w].sum) = Quotient
              /\ StepsOf(worker[w].sum) = (w * Quotient) .. ((w + 1) * Quotient - 1)
              /\ StepsOf(partialResults[w + 1]) = StepsOf(worker[w].sum)
              /\ \A g \in StepsOf(worker[w].sum) : g < steps
              /\ \A v \in RunWorkers :
                    v # w => StepsOf(worker[v].sum) \cap StepsOf(worker[w].sum) = {}
        /\ UNION { StepsOf(worker[w].sum) : w \in RunWorkers }
              = 0 .. (numThreads * Quotient - 1)
        /\ LET dropped == (0 .. (steps - 1))
                            \ UNION { StepsOf(worker[w].sum) : w \in RunWorkers }
           IN  /\ dropped = (steps - Remainder) .. (steps - 1)
               /\ Cardinality(dropped) = Remainder
               /\ pc = "row" => (StepsOf(pi) \cap dropped = {}
                                  /\ Len(pi) = steps - Remainder)

\* C13 witness: an aggregated run of several threads whose count does not
\* divide the step count: the last step was evaluated by no thread.
C13_Witness ==
    /\ pc = "row" /\ numThreads >= 2 /\ steps % numThreads # 0
    /\ (steps - 1) \notin StepsOf(pi)
    /\ Len(pi) = numThreads * stepsPerThread

\* The sum after k iterations of a call that began at a: the rectangles at
\* x_0, ..., x_(k-1), x_j = a + j*stepSize + stepSize/2, added left to right.
SumAfter(a, k) == [j \in 1 .. k |-> a + 2 * (j - 1) + 1]

\* State part of C14.
C14_State ==
    /\ worker[0].i >= 0 /\ worker[0].i <= worker[0].steps
    /\ worker[0].sum = SumAfter(worker[0].start, worker[0].i)
    /\ worker[0].pc = "loop" => writes[1] = << >>
    /\ Returned =>
          /\ worker[0].i = worker[0].steps
          /\ partialResults[1] = SumAfter(worker[0].start, worker[0].steps)
          /\ writes[1] = << 0 >>

\* Step part of C14: an iteration adds the next midpoint to the local sum and
\* leaves the slot alone; the slot is assigned in the step in which the call
\* returns, after the last iteration; the arguments never change.
C14_Step ==
    /\ worker'[0].start = worker[0].start
    /\ worker'[0].end = worker[0].end
    /\ worker'[0].steps = worker[0].steps
    /\ worker'[0].pc = "loop" =>
          /\ partialResults' = partialResults /\ writes' = writes
          /\ worker'[0].i = worker[0].i + 1
          /\ worker'[0].sum = Append(worker[0].sum,
                                     worker[0].start + 2 * worker[0].i + 1)
    /\ worker'[0].pc = "done" =>
          /\ worker[0].i = worker[0].steps
          /\ worker'[0].sum = worker[0].sum
          /\ partialResults' = << worker[0].sum >>
          /\ writes' = << << 0 >> >>

\* C14: the call evaluates the integrand at exactly steps points, the
\* midpoints x_i = start + i*stepSize + stepSize/2 for i = 0 .. steps-1 in
\* increasing order of i, adding each rectangle area to a local sum from left
\* to right; the slot is not touched before the loop has ended and is then
\* assigned the sum once; the result does not depend on the parameter end.
C14_MidpointRule == [] C14_State /\ [][C14_Step]_vars

\* C14 witness: a call of MaxKernelSteps steps that does not begin at 0, with
\* an end that is not start + steps*stepSize, has returned its sum.
C14_Witness ==
    /\ Returned /\ worker[0].steps = MaxKernelSteps /\ worker[0].start > 0
    /\ worker[0].end < worker[0].start
    /\ partialResults[1] = SumAfter(worker[0].start, MaxKernelSteps)

\* The sum of the first n elements of a vector of partial results, added in
\* index order.
RECURSIVE SumOfFirst(_, _)
SumOfFirst(q, n) == IF n = 0 THEN << >> ELSE SumOfFirst(q, n - 1) \o q[n]

\* C15: the estimate of a run is the sum of the numThreads partial results
\* of that run, each slot added once, in index order; the slots of a run are
\* created with it and hold 0.0 until its threads assign them, whatever the
\* earlier runs left; so every recorded estimate is determined by the
\* (steps, numThreads) of its own row.
C15_SumOfOwnSlots ==
    /\ pc \in {"time0", "divide"} =>
          /\ Len(partialResults) = numThreads
          /\ \A s \in 1 .. numThreads : partialResults[s] = << >>
    /\ PastBarrier =>
          /\ Len(partialResults) = numThreads
          /\ sumIdx <= numThreads
          /\ pi = SumOfFirst(partialResults, sumIdx)
    /\ pc = "row" =>
          /\ sumIdx = numThreads
          /\ pi = SumOfFirst(partialResults, numThreads)
          /\ Terms(pi) = Terms(SumOfFirst([s \in 1 .. numThreads |->
                                             worker[s - 1].sum], numThreads))
    /\ \A k \in Rows : csv[k].pi = ExpectedPi(csv[k].steps, csv[k].numThreads)

\* C15 witness: a later run of several threads has been aggregated from its
\* own slots, all of them non-zero, after earlier runs wrote their rows.
C15_Witness ==
    /\ pc = "row" /\ numThreads >= 2 /\ Cardinality(Rows) >= maxThreads
    /\ \A s \in 1 .. numThreads : partialResults[s] # << >>
    /\ pi = SumOfFirst(partialResults, numThreads)

\* The threads that are running (spawned and not yet returned).
Alive == { w \in Workers : worker[w].pc = "loop" }

\* The order of the events of main: which position follows which.
EventOrder ==
    { << "open", "check" >>, << "check", "exit" >>, << "check", "outer" >>,
      << "outer", "inner" >>, << "outer", "exit" >>,
      << "inner", "time0" >>, << "inner", "outer" >>,
      << "time0", "divide" >>, << "divide", "spawn" >>,
      << "spawn", "join" >>, << "spawn", "aborted" >>,
      << "join", "sum" >>, << "sum", "row" >>, << "row", "inner" >> }

\* State part of C16.
C16_State ==
    /\ pc \in {"open", "check", "outer", "inner", "exit", "time0", "divide"} =>
          (threads = << >> /\ \A w \in Workers : worker[w].pc = "none")
    /\ pc = "spawn" =>
          /\ joined = 0 /\ Len(threads) = i
          /\ \A k \in 1 .. Len(threads) : threads[k] = k - 1
    /\ pc = "join" =>
          /\ Len(threads) = numThreads
          /\ \A w \in RunWorkers : worker[w].pc = "joined" <=> w < joined
    /\ PastBarrier =>
          (Alive = {} /\ \A w \in RunWorkers : worker[w].pc = "joined")
    /\ Alive \subseteq RunWorkers
    /\ Cardinality(Alive) <= maxThreads
    /\ Alive # {} => (numThreads >= 1 /\ numThreads <= maxThreads)
    /\ \A k \in Rows :
          /\ csv[k].steps = stepCounts[((k - 2) \div maxThreads) + 1]
          /\ csv[k].numThreads = ((k - 2) % maxThreads) + 1
    /\ pc \in {"time0", "divide", "spawn", "join", "sum", "row", "aborted"} =>
          /\ steps = stepCounts[si]
          /\ Cardinality(Rows) = (si - 1) * maxThreads + (numThreads - 1)

\* Step part of C16: main moves along the event order; the start time is
\* read before the first spawn, the end time after the last slot was added,
\* and a row is written only by the step that ends the run, with no thread
\* of the run alive.
C16_Step ==
    /\ pc' # pc => << pc, pc' >> \in EventOrder
    /\ threads' # threads =>
          (pc = "spawn" /\ threads' = Append(threads, i) /\ joined = 0)
          \/ (pc = "row" /\ threads' = << >>)
    /\ joined' # joined =>
          (pc = "join" /\ Len(threads) = numThreads) \/ pc = "row"
    /\ (pc = "sum" /\ pc' = "row") => (sumIdx = numThreads /\ endTime' >= startTime)
    /\ csv' # csv =>
          \/ pc = "check"
          \/ /\ pc = "row" /\ Alive = {}
             /\ Len(csv') = Len(csv) + 1
             /\ csv'[Len(csv')].steps = steps
             /\ csv'[Len(csv')].numThreads = numThreads
             /\ \A w \in Workers : worker'[w].pc = "none"

\* C16: within a run the events follow in the order start time, spawn of
\* threads 0 .. numThreads-1 (all of them before any join), join of all
\* threads, aggregation, end time, row; the runs are sequential, in the order
\* of stepCounts and, for one step count, numThreads ascending from 1 to
\* maxThreads; no thread of a run is alive when its row is written or when
\* the next run spawns its first thread; at most maxThreads threads are alive
\* at any time.
C16_EventOrder == [] C16_State /\ [][C16_Step]_vars

\* C16 witness: the last run of the second step count is about to write its
\* row, all its maxThreads threads joined, after all the earlier rows.
C16_Witness ==
    /\ pc = "row" /\ si = 2 /\ numThreads = maxThreads
    /\ Cardinality(Rows) = 2 * maxThreads - 1
    /\ \A w \in Workers : worker[w].pc = "joined"

\* main is inside the body of the loops, in a run.
InRun == pc \in {"time0", "divide", "spawn", "join", "sum", "row"}

\* C17: in every run the benchmark executes, 1 <= numThreads <= maxThreads,
\* steps >= 1 and stepsPerThread = floor(steps / numThreads) >= 1: the
\* division of line 127 is never by zero, no thread gets an empty range, and
\* the products i*stepsPerThread and (i+1)*stepsPerThread lie in [0, steps]
\* and fit the long long they are evaluated in, also for the step count that
\* exceeds the range of int.
C17_RunParametersInRange ==
    /\ InRun =>
          /\ numThreads >= 1 /\ numThreads <= maxThreads /\ numThreads <= IntMax
          /\ steps >= 1 /\ steps <= LongLongMax
          /\ steps \div numThreads >= 1
    /\ pc = "divide" => numThreads # 0
    /\ pc \in {"spawn", "join", "sum", "row"} =>
          (stepsPerThread = steps \div numThreads /\ stepsPerThread >= 1)
    /\ (pc = "spawn" /\ i < numThreads) =>
          /\ NoOverflow(i, stepsPerThread)
          /\ 0 <= i * stepsPerThread
          /\ i * stepsPerThread < (i + 1) * stepsPerThread
          /\ (i + 1) * stepsPerThread <= steps
    /\ \A w \in Range(threads) :
          /\ worker[w].steps >= 1
          /\ 0 <= worker[w].start /\ worker[w].start < worker[w].end
          /\ worker[w].end <= 2 * steps
          /\ worker[w].start = 2 * (w * stepsPerThread)
          /\ worker[w].end = 2 * ((w + 1) * stepsPerThread)

\* C17 witness: the last thread of a run on the step count that exceeds the
\* range of int is about to be spawned; its end product exceeds that range.
C17_Witness ==
    /\ pc = "spawn" /\ steps > IntMax /\ i = numThreads - 1
    /\ (i + 1) * stepsPerThread > IntMax
    /\ NoOverflow(i, stepsPerThread)

====
